---- MODULE Spec2Model ----
(***************************************************************************)
(* A model of nussl/utils.py: find_peak_indices / find_peak_values, the    *)
(* numpy JSON codec and add_mismatched_arrays / add_mismatched_arrays2D.   *)
(*                                                                         *)
(* One behaviour is one call of one function.  numpy buffers live in       *)
(* `heap`; a Python name holds a reference (an index into heap), so that   *)
(* a copy and an alias are different things.  heap[1] (and heap[2]) are    *)
(* the caller's arrays.                                                    *)
(*                                                                         *)
(* A float is a pair <<n, d>>: the rational n/d in lowest terms with       *)
(* d >= 1, or <<1,0>> = +inf, <<-1,0>> = -inf, <<0,0>> = nan.  For the     *)
(* small integer inputs of the model distinct quotients are distinct       *)
(* doubles, comparisons agree with IEEE comparisons, and with elements in  *)
(* -1..2 every denominator is 1 or 2, so the sum of line 107 is exact.     *)
(***************************************************************************)
EXTENDS Integers, Sequences, FiniteSets, TLC

----------------------------------------------------------------------------
(* Bounds of the model *)

MaxLen == 4
MaxPeaks == 3
MaxVal == 2
MaxCols == 2
MaxBytes == 4
MaxMergeLen == 2

None == "None"

----------------------------------------------------------------------------
(* Floats *)

NaN == <<0, 0>>
Zero == <<0, 1>>

Abs(n) == IF n < 0 THEN -n ELSE n

RECURSIVE Gcd(_, _)
Gcd(a, b) == IF b = 0 THEN a ELSE Gcd(b, a % b)

Sign(n) == IF n > 0 THEN 1 ELSE IF n < 0 THEN -1 ELSE 0

\* the float with value n/d (d may be 0 or negative)
Float(n, d) ==
    IF d = 0 THEN <<Sign(n), 0>>
    ELSE LET g == Gcd(Abs(n), Abs(d))
             s == IF d < 0 THEN -1 ELSE 1
         IN <<(s * n) \div g, (s * d) \div g>>

FromInt(n) == <<n, 1>>

IsNaN(x) == x = NaN
IsFinite(x) == x[2] # 0

FAdd(x, y) ==
    IF IsNaN(x) \/ IsNaN(y) THEN NaN
    ELSE IF ~IsFinite(x) /\ ~IsFinite(y) THEN (IF x = y THEN x ELSE NaN)
    ELSE IF ~IsFinite(x) THEN x
    ELSE IF ~IsFinite(y) THEN y
    ELSE Float(x[1] * y[2] + y[1] * x[2], x[2] * y[2])

FNeg(x) == <<-x[1], x[2]>>

FSub(x, y) == FAdd(x, FNeg(y))

\* x / y for a finite x
FDiv(x, y) ==
    IF IsNaN(x) \/ IsNaN(y) THEN NaN
    ELSE IF ~IsFinite(y) THEN (IF IsFinite(x) THEN Zero ELSE NaN)
    ELSE IF ~IsFinite(x) THEN (IF y[1] < 0 THEN FNeg(x) ELSE x)
    ELSE Float(x[1] * y[2], x[2] * y[1])

\* x < y; false when either is nan
FLt(x, y) ==
    IF IsNaN(x) \/ IsNaN(y) THEN FALSE
    ELSE IF ~IsFinite(x) /\ ~IsFinite(y) THEN x[1] < y[1]
    ELSE IF ~IsFinite(x) THEN x[1] < 0
    ELSE IF ~IsFinite(y) THEN y[1] > 0
    ELSE x[1] * y[2] < y[1] * x[2]

\* x >= y; false when either is nan
FGe(x, y) == ~IsNaN(x) /\ ~IsNaN(y) /\ ~FLt(x, y)

\* x * b for a boolean b: inf * 0 and nan * 0 are nan
FMulBool(x, b) == IF b THEN x ELSE IF IsFinite(x) THEN Zero ELSE NaN

FNonzero(x) == x[1] # 0 \/ x[2] = 0

----------------------------------------------------------------------------
(* numpy arrays: [shape |-> <<...>>, data |-> the elements in row-major order] *)

RECURSIVE Prod(_)
Prod(s) == IF s = <<>> THEN 1 ELSE Head(s) * Prod(Tail(s))

ndim(a) == Len(a.shape)

\* len(a): the length of the first dimension
len(a) == a.shape[1]

RECURSIVE np_min_seq(_)
np_min_seq(s) ==
    IF Len(s) = 1 THEN s[1]
    ELSE LET m == np_min_seq(Tail(s)) IN IF FLt(m, s[1]) THEN m ELSE s[1]

RECURSIVE np_max_seq(_)
np_max_seq(s) ==
    IF Len(s) = 1 THEN s[1]
    ELSE LET m == np_max_seq(Tail(s)) IN IF FLt(s[1], m) THEN m ELSE s[1]

np_min(a) == np_min_seq(a.data)
np_max(a) == np_max_seq(a.data)

RECURSIVE np_sum_seq(_)
np_sum_seq(s) == IF s = <<>> THEN Zero ELSE FAdd(Head(s), np_sum_seq(Tail(s)))

np_sum(a) == np_sum_seq(a.data)

\* the number of nonzero elements of a
count_nonzero(a) == Cardinality({k \in 1..Len(a.data) : FNonzero(a.data[k])})

\* np.size(np.nonzero(a)): np.nonzero returns one index array per dimension,
\* each as long as the number of nonzero elements, and np.size counts the
\* elements of that tuple of arrays
size_of_nonzero(a) == ndim(a) * count_nonzero(a)

\* np.argmax(a): the flat 0-based index of the first nan if there is one, else
\* of the first occurrence of the maximum
np_argmax(a) ==
    LET n == Len(a.data)
        nans == {k \in 1..n : IsNaN(a.data[k])}
        maxs == {k \in 1..n : \A j \in 1..n : ~FLt(a.data[k], a.data[j])}
        first(S) == CHOOSE k \in S : \A j \in S : k <= j
    IN (IF nans # {} THEN first(nans) ELSE first(maxs)) - 1

\* np.unravel_index(flat, shape) as a tuple
np_unravel_index(flat, shape) ==
    IF Len(shape) = 1 THEN <<flat>>
    ELSE <<flat \div shape[2], flat % shape[2]>>

\* a[index] for a tuple index (0-based)
Item(a, index) ==
    IF Len(index) = 1 THEN a.data[index[1] + 1]
    ELSE a.data[index[1] * a.shape[2] + index[2] + 1]

----------------------------------------------------------------------------
(* State *)

VARIABLES
    op,             \* the function that was called
    pc,             \* the line of the function the call is at
    heap,           \* the numpy buffers; a reference is an index into heap
    caller,         \* the caller's arrays as they were when the call was made
    input_array,    \* find_peak_indices: reference to the working array
    n_peaks, min_dist, do_min, threshold,
    zero_dist,      \* <<zero_dist>> (1-D) or <<zero_dist0, zero_dist1>> (2-D)
    peak_indices,   \* list of 0-based index tuples
    picked,         \* the working value argmax found at each iteration
    i,              \* loop counter of find_peak_indices
    warned,         \* TRUE once warnings.warn was called
    raised,         \* the exception that ended the call, or None
    array1, array2, \* add_mismatched_arrays: references
    truncate,
    array,          \* codec: the array handed to json_serialize_numpy_array
    array_json,     \* codec: the JSON document
    result          \* the value the call returned, or None

peakvars == <<input_array, n_peaks, min_dist, do_min, threshold, zero_dist,
              peak_indices, picked, i, warned>>
mergevars == <<array1, array2, truncate>>
codecvars == <<array, array_json>>
vars == <<op, pc, heap, caller, peakvars, mergevars, codecvars, raised, result>>

----------------------------------------------------------------------------
(* Inputs of find_peak_indices and find_peak_values *)

Values == (0 - 1)..MaxVal
Values2D == {0, 1}
\* thresholds -1, 0.5 and 1.5; with do_min no value is above 0, so 1.5 acts as 0.5
Thresholds == {<<0 - 1, 1>>, <<1, 2>>, <<3, 2>>}
ThresholdsFor(dm) == IF dm THEN Thresholds \ {<<3, 2>>} ELSE Thresholds
DefaultThreshold == <<1, 2>>
\* min_dist: <<"None">>, an int <<"int", d>>, or a tuple <<"tuple", d...>>
MinDists1D == {<<"None">>, <<"int", 0>>}
MinDists2D == {<<"None">>, <<"int", 1>>, <<"tuple", 1>>, <<"tuple", 0, 1>>}

\* the float array of a shape with the integer elements d
FloatArray(shape, d) ==
    [shape |-> shape, data |-> [k \in 1..Prod(shape) |-> FromInt(d[k])]]

\* the shapes of the 1-D, 2-D and 3-D inputs
PeakShapes ==
    {<<n>> : n \in 1..MaxLen} \cup {<<r, c>> : r \in 1..2, c \in 1..MaxCols}
        \cup {<<1, 1, 2>>}

----------------------------------------------------------------------------
(* find_peak_indices *)

\* np.asarray(a, dtype=float) in place of np.array: no copy of a float array
np_asarray(h, ref) == [heap |-> h, ref |-> ref]

\* np.array(a, dtype=float): a new buffer holding a copy of heap[ref]
np_array(h, ref) == [heap |-> Append(h, h[ref]), ref |-> Len(h) + 1]

\* lines 56-68: the suppression distance per axis
zero_dists(a, md) ==
    LET d == IF md[1] = "None" THEN <<"int", len(a) \div 4>> ELSE md
    IN IF ndim(a) = 1 THEN <<d[2]>>
       ELSE IF d[1] = "int" THEN <<d[2], d[2]>>
       ELSE IF Len(d) = 2 THEN <<d[2], d[2]>>
       ELSE <<d[2], d[3]>>

\* lines 71-74: shift by the minimum
shift(a) ==
    LET m == np_min(a)
    IN IF FLt(m, Zero)
       THEN [a EXCEPT !.data = [k \in 1..Len(a.data) |-> FAdd(a.data[k], m)]]
       ELSE IF FLt(Zero, m)
       THEN [a EXCEPT !.data = [k \in 1..Len(a.data) |-> FSub(a.data[k], m)]]
       ELSE a

\* line 76: divide by the maximum
scale(a) ==
    LET m == np_max(a)
    IN [a EXCEPT !.data = [k \in 1..Len(a.data) |-> FDiv(a.data[k], m)]]

\* line 79
flip(a, dm) ==
    IF dm THEN [a EXCEPT !.data = [k \in 1..Len(a.data) |-> FNeg(a.data[k])]] ELSE a

\* line 82: np.multiply(a, a >= threshold)
apply_threshold(a, t) ==
    [a EXCEPT !.data = [k \in 1..Len(a.data) |->
        FMulBool(a.data[k], FGe(a.data[k], t))]]

\* lines 113-118
_set_array_zero_indices(index, zero_distance, max_len) ==
    LET lower == index - zero_distance - 1
        upper == index + zero_distance + 1
    IN <<IF lower < 0 THEN 0 ELSE lower,
         IF upper >= max_len THEN max_len ELSE upper>>

\* lines 98-105: a[lower:upper] = 0, or a[lower0:upper0, lower1:upper1] = 0
zero_window(a, cur_peak_idx, zd) ==
    IF ndim(a) = 1 THEN
        LET lu == _set_array_zero_indices(cur_peak_idx[1], zd[1], len(a))
        IN [a EXCEPT !.data = [k \in 1..Len(a.data) |->
               IF lu[1] <= k - 1 /\ k - 1 < lu[2] THEN Zero ELSE a.data[k]]]
    ELSE
        LET lu0 == _set_array_zero_indices(cur_peak_idx[1], zd[1], a.shape[1])
            lu1 == _set_array_zero_indices(cur_peak_idx[2], zd[2], a.shape[2])
        IN [a EXCEPT !.data = [k \in 1..Len(a.data) |->
               LET r == (k - 1) \div a.shape[2]
                   c == (k - 1) % a.shape[2]
               IN IF /\ lu0[1] <= r /\ r < lu0[2]
                     /\ lu1[1] <= c /\ c < lu1[2]
                  THEN Zero ELSE a.data[k]]]

\* lines 51-68: copy the input, reject more than 2 dimensions, set the distances
FPI_Copy ==
    /\ pc = "fpi_51"
    /\ LET r == np_array(heap, input_array)
       IN /\ heap' = r.heap
          /\ input_array' = r.ref
          /\ IF ndim(r.heap[r.ref]) > 2
             THEN /\ raised' = "ValueError: more than 2 dimensions"
                  /\ pc' = "raised"
                  /\ UNCHANGED zero_dist
             ELSE /\ zero_dist' = zero_dists(r.heap[r.ref], min_dist)
                  /\ pc' = "fpi_71"
                  /\ UNCHANGED raised
    /\ UNCHANGED <<op, caller, n_peaks, min_dist, do_min, threshold, peak_indices,
                   picked, i, warned, mergevars, codecvars, result>>

\* lines 71-76: input_array += / -= min, input_array /= max, all in place
FPI_Scale ==
    /\ pc = "fpi_71"
    /\ heap' = [heap EXCEPT ![input_array] = scale(shift(heap[input_array]))]
    /\ pc' = "fpi_79"
    /\ UNCHANGED <<op, caller, peakvars, mergevars, codecvars, raised, result>>

\* lines 79-82: negation and thresholding build a new array and rebind the name
FPI_Threshold ==
    /\ pc = "fpi_79"
    /\ IF do_min
       THEN heap' = Append(Append(heap, flip(heap[input_array], do_min)),
                           apply_threshold(flip(heap[input_array], do_min), threshold))
       ELSE heap' = Append(heap, apply_threshold(heap[input_array], threshold))
    /\ input_array' = Len(heap')
    /\ pc' = "fpi_85"
    /\ UNCHANGED <<op, caller, n_peaks, min_dist, do_min, threshold, zero_dist,
                   peak_indices, picked, i, warned, mergevars, codecvars, raised, result>>

\* lines 85-90: nothing left raises, fewer than n_peaks left warns
FPI_Check ==
    /\ pc = "fpi_85"
    /\ IF size_of_nonzero(heap[input_array]) = 0
       THEN /\ raised' = "ValueError: no peaks above threshold"
            /\ pc' = "raised"
            /\ UNCHANGED <<warned, peak_indices, i>>
       ELSE /\ warned' = (size_of_nonzero(heap[input_array]) < n_peaks)
            /\ peak_indices' = <<>>
            /\ i' = 0
            /\ pc' = "fpi_91"
            /\ UNCHANGED raised
    /\ UNCHANGED <<op, heap, caller, input_array, n_peaks, min_dist, do_min, threshold,
                   zero_dist, picked, mergevars, codecvars, result>>

\* lines 91-108: one iteration of the loop
FPI_Loop ==
    /\ pc = "fpi_91"
    /\ LET a == heap[input_array]
           cur_peak_idx == np_unravel_index(np_argmax(a), a.shape)
           z == zero_window(a, cur_peak_idx, zero_dist)
       IN /\ peak_indices' = Append(peak_indices, cur_peak_idx)
          /\ picked' = Append(picked, Item(a, cur_peak_idx))
          /\ heap' = [heap EXCEPT ![input_array] = z]
          /\ i' = i + 1
          /\ pc' = IF np_sum(z) = Zero \/ i + 1 >= n_peaks THEN "fpi_110" ELSE "fpi_91"
    /\ UNCHANGED <<op, caller, input_array, n_peaks, min_dist, do_min, threshold,
                   zero_dist, warned, mergevars, codecvars, raised, result>>

\* line 110
FPI_Return ==
    /\ pc = "fpi_110"
    /\ result' = peak_indices
    /\ pc' = IF op = "find_peak_values" THEN "fpv_160" ELSE "done"
    /\ UNCHANGED <<op, heap, caller, peakvars, mergevars, codecvars, raised>>

\* line 160: find_peak_values reads its own argument at the returned indices
FPV_Return ==
    /\ pc = "fpv_160"
    /\ result' = [k \in 1..Len(result) |-> Item(heap[1], result[k])]
    /\ pc' = "done"
    /\ UNCHANGED <<op, heap, caller, peakvars, mergevars, codecvars, raised>>

InitPeak ==
    /\ op \in {"find_peak_indices", "find_peak_values"}
    /\ pc = "fpi_51"
    /\ \E shape \in PeakShapes :
          \E d \in [1..Prod(shape) -> IF Len(shape) = 1 THEN Values ELSE Values2D] :
             /\ heap = <<FloatArray(shape, d)>>
             /\ caller = heap
             /\ min_dist \in IF op = "find_peak_values" THEN {<<"None">>}
                             ELSE IF Len(shape) = 1 THEN MinDists1D ELSE MinDists2D
    /\ input_array = 1
    /\ n_peaks \in 1..MaxPeaks
    /\ do_min \in IF op = "find_peak_values" THEN {FALSE} ELSE BOOLEAN
    /\ threshold \in IF op = "find_peak_values" THEN {DefaultThreshold}
                      ELSE ThresholdsFor(do_min)
    /\ zero_dist = None
    /\ peak_indices = <<>>
    /\ picked = <<>>
    /\ i = 0
    /\ warned = FALSE
    /\ raised = None
    /\ result = None
    /\ array1 = None /\ array2 = None /\ truncate = None
    /\ array = None /\ array_json = None

----------------------------------------------------------------------------
(* add_mismatched_arrays and add_mismatched_arrays2D *)
(* Arrays here are [shape, data, dtype] with integer elements; the promoted *)
(* dtype holds every element of both arrays unchanged.                      *)

MergeValues1 == {1, 2}
MergeValues2 == {10, 20}
MergeDtypes == {"int64", "float64"}


np_promote_types(t1, t2) == IF t1 = t2 THEN t1 ELSE "float64"

\* np.array(a, dtype=t): a new buffer holding a copy of heap[ref] cast to t
np_array_dtype(h, ref, t) ==
    [heap |-> Append(h, [h[ref] EXCEPT !.dtype = t]), ref |-> Len(h) + 1]

\* a[:, :w] of a 2-D array, a[:w] of a 1-D array
Prefix(a, w) ==
    IF ndim(a) = 1
    THEN [a EXCEPT !.shape = <<w>>, !.data = SubSeq(a.data, 1, w)]
    ELSE [a EXCEPT !.shape = <<a.shape[1], w>>,
                   !.data = [k \in 1..(a.shape[1] * w) |->
                       a.data[((k - 1) \div w) * a.shape[2] + ((k - 1) % w) + 1]]]

\* the length along the last axis
Width(a) == a.shape[Len(a.shape)]

\* r[..., :Width(b)] += b on a copy r of a
AddIntoPrefix(a, b) ==
    LET w == Width(a)
        v == Width(b)
    IN [a EXCEPT !.data = [k \in 1..Len(a.data) |->
           IF (k - 1) % w < v
           THEN a.data[k] + b.data[((k - 1) \div w) * v + ((k - 1) % w) + 1]
           ELSE a.data[k]]]

\* add_mismatched_arrays with the slice of the padding branch one short:
\* result[:len(array1) - 1] += array1[:len(array1) - 1]
add_mismatched_arrays_short_slice(a1, a2, trunc) ==
    IF trunc THEN
        IF len(a1) < len(a2)
        THEN AddIntoPrefix(a1, Prefix(a2, len(a1)))
        ELSE AddIntoPrefix(a2, Prefix(a1, len(a2)))
    ELSE
        IF len(a1) < len(a2)
        THEN AddIntoPrefix(a2, Prefix(a1, len(a1) - 1))
        ELSE AddIntoPrefix(a1, Prefix(a2, len(a2) - 1))

\* lines 260-273: the array `result` is bound to when the additions are done
add_mismatched_arrays_result(a1, a2, trunc) ==
    IF trunc THEN
        IF len(a1) < len(a2)
        THEN AddIntoPrefix(a1, Prefix(a2, len(a1)))
        ELSE AddIntoPrefix(a2, Prefix(a1, len(a2)))
    ELSE
        IF len(a1) < len(a2)
        THEN AddIntoPrefix(a2, a1)
        ELSE AddIntoPrefix(a1, a2)

\* lines 300-313
add_mismatched_arrays2D_result(a1, a2, trunc) ==
    IF trunc THEN
        IF a1.shape[2] < a2.shape[2]
        THEN AddIntoPrefix(a1, Prefix(a2, a1.shape[2]))
        ELSE AddIntoPrefix(a2, Prefix(a1, a2.shape[2]))
    ELSE
        IF a1.shape[2] < a2.shape[2]
        THEN AddIntoPrefix(a2, a1)
        ELSE AddIntoPrefix(a1, a2)

\* lines 255-256 and 295-296: both arguments are copied and cast
AMA_Cast ==
    /\ pc \in {"ama_255", "ama2d_295"}
    /\ LET r1 == np_array_dtype(heap, array1,
                    np_promote_types(heap[array1].dtype, heap[array2].dtype))
           r2 == np_array_dtype(r1.heap, array2,
                    np_promote_types(r1.heap[r1.ref].dtype, r1.heap[array2].dtype))
       IN /\ heap' = r2.heap
          /\ array1' = r1.ref
          /\ array2' = r2.ref
    /\ pc' = IF pc = "ama_255" THEN "ama_260" ELSE "ama2d_300"
    /\ UNCHANGED <<op, caller, peakvars, truncate, codecvars, raised, result>>

\* lines 260-275: result is a copy of one argument, added to in place
AMA_Add ==
    /\ pc = "ama_260"
    /\ heap' = Append(heap,
                  add_mismatched_arrays_result(heap[array1], heap[array2], truncate))
    /\ result' = Len(heap')
    /\ pc' = "done"
    /\ UNCHANGED <<op, caller, peakvars, mergevars, codecvars, raised>>

\* lines 300-315
AMA2D_Add ==
    /\ pc = "ama2d_300"
    /\ heap' = Append(heap,
                  add_mismatched_arrays2D_result(heap[array1], heap[array2], truncate))
    /\ result' = Len(heap')
    /\ pc' = "done"
    /\ UNCHANGED <<op, caller, peakvars, mergevars, codecvars, raised>>

\* the shape of an argument of length n along the merge axis; rows = 0 for 1-D
MergeShape(rows, n) == IF rows = 0 THEN <<n>> ELSE <<rows, n>>

InitMerge ==
    /\ op \in {"add_mismatched_arrays", "add_mismatched_arrays2D"}
    /\ pc = IF op = "add_mismatched_arrays" THEN "ama_255" ELSE "ama2d_295"
    /\ \E rows \in IF op = "add_mismatched_arrays" THEN {0} ELSE 1..2 :
          \E n1, n2 \in 0..MaxMergeLen :
             \E d1 \in [1..Prod(MergeShape(rows, n1)) -> MergeValues1],
                d2 \in [1..Prod(MergeShape(rows, n2)) -> MergeValues2],
                t1, t2 \in MergeDtypes :
                heap = <<[shape |-> MergeShape(rows, n1), data |-> d1, dtype |-> t1],
                         [shape |-> MergeShape(rows, n2), data |-> d2, dtype |-> t2]>>
    /\ caller = heap
    /\ array1 = 1
    /\ array2 = 2
    /\ truncate \in BOOLEAN
    /\ raised = None
    /\ result = None
    /\ input_array = None /\ n_peaks = None /\ min_dist = None /\ do_min = None
    /\ threshold = None /\ zero_dist = None /\ peak_indices = None /\ picked = None
    /\ i = None /\ warned = None
    /\ array = None /\ array_json = None

----------------------------------------------------------------------------
(* The numpy JSON codec *)
(* A Python object is [type, dtype, shape, order, mem]; for an ndarray mem   *)
(* holds the bytes of the buffer in memory order and order is "C"            *)
(* (row-major) or "F" (column-major).                                        *)
(* Base64 text is a sequence of positions in the base64 alphabet, 64 being   *)
(* the padding character.  A JSON text is <<"null">> or <<"object", o>>, o    *)
(* being the structure of the text with every number as its decimal digits.  *)

ByteValues == {0, 165, 255}

\* the key of the wrapper object, constants.NUMPY_JSON_KEY
NUMPY_JSON_KEY == "py/numpy.ndarray"

\* dtypes: kind, itemsize in bytes, byte order ("=" native, ">" big-endian,
\* "|" not applicable)
Dtypes ==
    {[kind |-> "i", itemsize |-> 1, byteorder |-> "|"],
     [kind |-> "u", itemsize |-> 1, byteorder |-> "|"],
     [kind |-> "i", itemsize |-> 2, byteorder |-> "="],
     [kind |-> "i", itemsize |-> 2, byteorder |-> ">"],
     [kind |-> "f", itemsize |-> 2, byteorder |-> "="]}

\* str(dtype): the name of a native dtype, the type string of a byte-swapped one
dtype_str(d) ==
    IF d.byteorder = ">"
    THEN <<">", d.kind, d.itemsize>>
    ELSE <<(IF d.kind = "i" THEN "int" ELSE IF d.kind = "u" THEN "uint" ELSE "float"),
           8 * d.itemsize>>

\* np.dtype(name)
np_dtype(name) ==
    IF name[1] = ">"
    THEN [kind |-> name[2], itemsize |-> name[3], byteorder |-> ">"]
    ELSE [kind |-> (IF name[1] = "int" THEN "i" ELSE IF name[1] = "uint" THEN "u" ELSE "f"),
          itemsize |-> name[2] \div 8,
          byteorder |-> IF name[2] = 8 THEN "|" ELSE "="]

\* the position in mem of the first byte of element k (0-based, row-major count)
MemOffset(a, k) ==
    IF a.order = "C" \/ Len(a.shape) < 2 THEN k * a.dtype.itemsize
    ELSE LET r == k \div a.shape[2]
             c == k % a.shape[2]
         IN (c * a.shape[1] + r) * a.dtype.itemsize

\* the bytes of the elements of a in row-major order
ElementBytes(a) ==
    [j \in 1..Len(a.mem) |->
        a.mem[MemOffset(a, (j - 1) \div a.dtype.itemsize)
              + ((j - 1) % a.dtype.itemsize) + 1]]

\* np.ascontiguousarray(a)
np_ascontiguousarray(a) == [a EXCEPT !.order = "C", !.mem = ElementBytes(a)]

\* base64.b64encode: three bytes give four characters, a last group of one or
\* two bytes gives two or three characters and padding
RECURSIVE b64encode(_)
b64encode(b) ==
    IF Len(b) = 0 THEN <<>>
    ELSE IF Len(b) = 1 THEN
        <<b[1] \div 4, (b[1] % 4) * 16, 64, 64>>
    ELSE IF Len(b) = 2 THEN
        <<b[1] \div 4, (b[1] % 4) * 16 + b[2] \div 16, (b[2] % 16) * 4, 64>>
    ELSE
        <<b[1] \div 4, (b[1] % 4) * 16 + b[2] \div 16,
          (b[2] % 16) * 4 + b[3] \div 64, b[3] % 64>>
        \o b64encode(SubSeq(b, 4, Len(b)))

\* base64.b64decode: four characters give three bytes, fewer where padded
RECURSIVE b64decode(_)
b64decode(t) ==
    IF Len(t) < 4 THEN <<>>
    ELSE LET b1 == t[1] * 4 + t[2] \div 16
             b2 == (t[2] % 16) * 16 + t[3] \div 4
             b3 == (t[3] % 4) * 64 + t[4]
         IN (IF t[3] = 64 THEN <<b1>>
             ELSE IF t[4] = 64 THEN <<b1, b2>>
             ELSE <<b1, b2, b3>>)
            \o b64decode(SubSeq(t, 5, Len(t)))

\* the decimal digits of a natural number, and back
RECURSIVE IntToDigits(_)
IntToDigits(n) == IF n < 10 THEN <<n>> ELSE Append(IntToDigits(n \div 10), n % 10)

RECURSIVE DigitsToInt(_)
DigitsToInt(d) ==
    IF Len(d) = 1 THEN d[1]
    ELSE 10 * DigitsToInt(SubSeq(d, 1, Len(d) - 1)) + d[Len(d)]

\* isinstance(x, np.ndarray)
IsNdarray(x) == x.type = "ndarray"

\* an argument that is no ndarray
NotAnArray ==
    [type |-> "list", dtype |-> [kind |-> "i", itemsize |-> 1, byteorder |-> "|"],
     shape |-> <<1>>, order |-> "C", mem |-> <<0>>]

\* lines 173-184
json_ready_numpy_array(a) ==
    IF IsNdarray(a)
    THEN <<"dict", [key \in {NUMPY_JSON_KEY} |->
                      [__ndarray__ |-> b64encode(np_ascontiguousarray(a).mem),
                       dtype |-> dtype_str(a.dtype),
                       shape |-> a.shape]]>>
    ELSE <<"None">>

\* json.dumps: null for None, the tuple shape becomes a list of numbers
json_dumps(obj) ==
    IF obj[1] = "None" THEN <<"null">>
    ELSE <<"object", [key \in DOMAIN obj[2] |->
              [obj[2][key] EXCEPT !.shape = [k \in 1..Len(obj[2][key].shape) |->
                                               IntToDigits(obj[2][key].shape[k])]]]>>

\* np.frombuffer(data, dtype).reshape(shape)
np_frombuffer_reshape(data, dtype, shape) ==
    [type |-> "ndarray", dtype |-> np_dtype(dtype), shape |-> shape, order |-> "C",
     mem |-> data]

\* the hook without the reshape: np.frombuffer(data, dct['dtype'])
json_numpy_obj_hook_flat(dct) ==
    IF "__ndarray__" \in DOMAIN dct
    THEN np_frombuffer_reshape(b64decode(dct.__ndarray__), dct.dtype,
            <<Len(b64decode(dct.__ndarray__)) \div np_dtype(dct.dtype).itemsize>>)
    ELSE dct

\* lines 233-236
json_numpy_obj_hook(dct) ==
    IF "__ndarray__" \in DOMAIN dct
    THEN np_frombuffer_reshape(b64decode(dct.__ndarray__), dct.dtype, dct.shape)
    ELSE dct

\* json.loads(text, object_hook=json_numpy_obj_hook): the numbers are parsed
\* and the hook is applied to every object, innermost first
json_loads(text) ==
    IF text[1] = "null" THEN <<"None">>
    ELSE <<"dict", json_numpy_obj_hook([key \in DOMAIN text[2] |->
              json_numpy_obj_hook([text[2][key] EXCEPT !.shape = [k \in 1..Len(text[2][key].shape) |->
                                                     DigitsToInt(text[2][key].shape[k])]])])>>

\* line 203
JSON_Serialize ==
    /\ pc = "json_203"
    /\ array_json' = json_dumps(json_ready_numpy_array(array))
    /\ pc' = "json_222"
    /\ UNCHANGED <<op, heap, caller, peakvars, mergevars, array, raised, result>>

\* frombuffer and reshape raise ValueError unless the buffer holds exactly the
\* elements of the shape
BufferFits(a) == Len(a.mem) = Prod(a.shape) * a.dtype.itemsize

\* line 222: subscripting None raises TypeError
JSON_Load ==
    /\ pc = "json_222"
    /\ LET loaded == json_loads(array_json)
       IN IF loaded[1] = "None"
          THEN /\ raised' = "TypeError"
               /\ pc' = "raised"
               /\ UNCHANGED result
          ELSE IF ~BufferFits(loaded[2][NUMPY_JSON_KEY])
          THEN /\ raised' = "ValueError"
               /\ pc' = "raised"
               /\ UNCHANGED result
          ELSE /\ result' = loaded[2][NUMPY_JSON_KEY]
               /\ pc' = "done"
               /\ UNCHANGED raised
    /\ UNCHANGED <<op, heap, caller, peakvars, mergevars, codecvars>>

Shapes(itemsize) ==
    {s \in {<<n>> : n \in 1..MaxBytes} \cup {<<r, c>> : r, c \in 1..MaxBytes} :
        Prod(s) * itemsize <= MaxBytes}

InitCodec ==
    /\ op = "json_serialize_numpy_array"
    /\ pc = "json_203"
    /\ \/ array = NotAnArray
       \/ \E d \in Dtypes :
             \E s \in Shapes(d.itemsize) :
                \E m \in [1..(Prod(s) * d.itemsize) -> ByteValues],
                   o \in IF Len(s) = 2 THEN {"C", "F"} ELSE {"C"} :
                   array = [type |-> "ndarray", dtype |-> d, shape |-> s, order |-> o,
                            mem |-> m]
    /\ array_json = None
    /\ heap = <<>>
    /\ caller = <<>>
    /\ raised = None
    /\ result = None
    /\ input_array = None /\ n_peaks = None /\ min_dist = None /\ do_min = None
    /\ threshold = None /\ zero_dist = None /\ peak_indices = None /\ picked = None
    /\ i = None /\ warned = None
    /\ array1 = None /\ array2 = None /\ truncate = None

Init == InitPeak \/ InitMerge \/ InitCodec

Next ==
    \/ FPI_Copy
    \/ FPI_Scale
    \/ FPI_Threshold
    \/ FPI_Check
    \/ FPI_Loop
    \/ FPI_Return
    \/ FPV_Return
    \/ AMA_Cast
    \/ AMA_Add
    \/ AMA2D_Add
    \/ JSON_Serialize
    \/ JSON_Load

Spec == Init /\ [][Next]_vars

----------------------------------------------------------------------------
(* Properties of find_peak_indices *)

\* the caller's array, as floats
original == caller[1]

\* the working array after thresholding and before any suppression window
thresholded == apply_threshold(flip(scale(shift(original)), do_min), threshold)

Distinct(a) == {a.data[k] : k \in 1..Len(a.data)}

\* the 0-based positions of the largest / smallest elements of a
ArgMaxima(a) == {k - 1 : k \in {j \in 1..Len(a.data) : a.data[j] = np_max(a)}}
ArgMinima(a) == {k - 1 : k \in {j \in 1..Len(a.data) : a.data[j] = np_min(a)}}

PeakCall == op \in {"find_peak_indices", "find_peak_values"}

Returned == op = "find_peak_indices" /\ pc = "done"

\* a call find_peak_indices(a, 1) on a 1-D array, the other parameters defaulted
DefaultCall1D(dm) ==
    /\ op = "find_peak_indices"
    /\ ndim(original) = 1
    /\ n_peaks = 1
    /\ min_dist = <<"None">>
    /\ do_min = dm
    /\ threshold = DefaultThreshold

\* C1: a 1-D array of any sign with a single unique maximum: find_peak_indices(a, 1)
\* returns the one-element list holding the position of the maximum
C1_UniqueMaxFound ==
    (DefaultCall1D(FALSE) /\ Cardinality(ArgMaxima(original)) = 1)
        => /\ pc # "raised"
           /\ pc = "done" => \E k \in ArgMaxima(original) : result = << <<k>> >>

\* C2: an input with at least two distinct values: after the shift and the division
\* the working array has minimum 0 and every value in [0, 1]
C2_NormalizedRange ==
    (PeakCall /\ pc = "fpi_79" /\ Cardinality(Distinct(original)) >= 2)
        => LET a == heap[input_array]
           IN /\ np_min(a) = Zero
              /\ \A k \in 1..Len(a.data) :
                    FGe(a.data[k], Zero) /\ FGe(FromInt(1), a.data[k])

\* C6: with k the number of nonzero elements after thresholding: k = 0 raises,
\* 0 < k < n_peaks warns and goes on, k >= n_peaks does not warn
C6_ThresholdCheck ==
    (PeakCall /\ ndim(original) <= 2) =>
        LET k == count_nonzero(thresholded)
        IN /\ pc = "raised" => k = 0
           /\ pc \in {"fpi_91", "fpi_110", "fpv_160", "done"}
                 => /\ k > 0
                    /\ warned <=> (k < n_peaks)

\* C7: do_min = True on a 1-D array with a single unique minimum:
\* find_peak_indices(a, 1, do_min=True) returns the position of the minimum
C7_UniqueMinFound ==
    (DefaultCall1D(TRUE) /\ Cardinality(ArgMinima(original)) = 1)
        => /\ pc # "raised"
           /\ pc = "done" => \E k \in ArgMinima(original) : result = << <<k>> >>

\* C8: the returned list has at most n_peaks entries and the thresholded
\* normalized values at consecutive entries do not increase
C8_DescendingOrder ==
    Returned
        => /\ Len(result) <= n_peaks
           /\ \A k \in 1..(Len(result) - 1) :
                 FGe(Item(thresholded, result[k]), Item(thresholded, result[k + 1]))

\* C9: any two returned peaks are at least min_dist apart along each axis
C9_MinimumSeparation ==
    Returned
        => \A k, l \in 1..Len(result) :
              k < l => \A ax \in 1..Len(zero_dist) :
                          Abs(result[k][ax] - result[l][ax]) >= zero_dist[ax]

\* C10: every coordinate the max-search chooses holds a nonzero working value
\* that is >= threshold, and no coordinate is returned twice
C10_PeaksAboveThreshold ==
    PeakCall =>
        /\ \A k \in 1..Len(picked) : FNonzero(picked[k]) /\ FGe(picked[k], threshold)
        /\ \A k, l \in 1..Len(peak_indices) :
              k < l => peak_indices[k] # peak_indices[l]

----------------------------------------------------------------------------
(* Properties of add_mismatched_arrays and add_mismatched_arrays2D *)

Merged == op \in {"add_mismatched_arrays", "add_mismatched_arrays2D"} /\ pc = "done"

Rows(a) == IF ndim(a) = 1 THEN 1 ELSE a.shape[1]

\* a[row, col], or a[col] of a 1-D array (0-based)
At(a, row, col) == a.data[row * Width(a) + col + 1]

Min(x, y) == IF x < y THEN x ELSE y
Max(x, y) == IF x < y THEN y ELSE x

\* C3: with lengths L1 and L2 along the merge axis, truncate gives length
\* min(L1, L2) and the sums; otherwise length max(L1, L2), the sums below
\* min(L1, L2) and the longer array's own elements from there on
C3_MergedElements ==
    Merged =>
        LET a1 == caller[1]
            a2 == caller[2]
            r == heap[result]
            L1 == Width(a1)
            L2 == Width(a2)
            longer == IF L1 < L2 THEN a2 ELSE a1
        IN /\ ndim(r) = ndim(a1)
           /\ Rows(r) = Rows(a1)
           /\ Width(r) = IF truncate THEN Min(L1, L2) ELSE Max(L1, L2)
           /\ Len(r.data) = Rows(r) * Width(r)
           /\ \A row \in 0..(Rows(r) - 1), col \in 0..(Width(r) - 1) :
                 At(r, row, col) = IF col < Min(L1, L2)
                                   THEN At(a1, row, col) + At(a2, row, col)
                                   ELSE At(longer, row, col)

\* a 2-D padding merge whose second argument is the wider one has returned
C3_Witness ==
    /\ Merged
    /\ op = "add_mismatched_arrays2D"
    /\ ~truncate
    /\ Rows(caller[1]) = 2
    /\ 1 <= Width(caller[1])
    /\ Width(caller[1]) < Width(caller[2])

\* C4: the caller's arrays hold, at every point of a call of find_peak_indices,
\* find_peak_values, add_mismatched_arrays or add_mismatched_arrays2D, the
\* values they held when the call was made
C4_InputsNotMutated == \A k \in 1..Len(caller) : heap[k] = caller[k]

\* find_peak_values has returned after scaling and zeroing its working arrays
C4_Witness ==
    /\ op = "find_peak_values"
    /\ pc = "done"
    /\ Len(result) = 2
    /\ heap[2] # caller[1]
    /\ heap[3] # heap[2]

----------------------------------------------------------------------------
(* Properties of the codec *)

\* C5: load_numpy_json(json_serialize_numpy_array(A)) has the dtype, the shape
\* and the element bytes of A
C5_RoundTrip ==
    (op = "json_serialize_numpy_array" /\ IsNdarray(array))
        => /\ pc # "raised"
           /\ pc = "done" => /\ IsNdarray(result)
                             /\ result.dtype = array.dtype
                             /\ result.shape = array.shape
                             /\ ElementBytes(result) = ElementBytes(array)

\* a column-major 2 x 2 array has made the round trip
C5_Witness ==
    /\ op = "json_serialize_numpy_array"
    /\ pc = "done"
    /\ array.order = "F"
    /\ array.shape = <<2, 2>>
    /\ ElementBytes(array) # array.mem

====
